---- MODULE Spec2Model ----
(***************************************************************************)
(* A model of the YouTube batch downloader (batch_download_youtube.py)     *)
(* and of the single-video downloader (download_youtube_yt_dlp.py).        *)
(*                                                                         *)
(*   Spec      the two programs: main, batch_download, the thread pool and *)
(*             one download_video call per submitted URL; the single       *)
(*             program's main and its download_video call.                 *)
(*             A behaviour is one run of one of the two programs.          *)
(*   SpecRead  read_urls_from_file applied to bounded input files.         *)
(*   SpecLive  batch_download called on bounded URL lists, never           *)
(*             interrupted, with fair threads.                             *)
(*   SpecSave  save_results applied, up to MaxSaves times, to bounded      *)
(*             result lists and a report file that may exist already.      *)
(*                                                                         *)
(* Strings that the code inspects character by character (input lines) are *)
(* sequences of one-character strings; messages are opaque values.         *)
(***************************************************************************)
EXTENDS Integers, Sequences, FiniteSets, TLC

\* ------------------------------------------------------------------ bounds

\* Largest number of URLs in one batch.
MaxTasks == 3
\* Largest value of --workers that is explored (0 is explored too).
MaxWorkers == 2
\* Largest value of --retries that is explored (-1 and 0 are explored too).
MaxRetries == 3
\* Largest number of fetch attempts one batch may need, that is the number
\* of URLs times --retries.
MaxWork == 6
\* Largest number of lines (rows) of an input file.
MaxLines == 2
\* Largest number of characters of one line (of one CSV field).
MaxLineLen == 2
\* Largest number of characters of an input file, line ends not counted.
MaxFileChars == 3
\* Largest number of URLs, and of fetch attempts of a batch (URLs times
\* --retries), in the runs checked for progress (SpecLive).
MaxLiveTasks == 2
MaxLiveWork == 5
\* Largest number of tuples of a result list given to save_results alone.
MaxRows == 2
\* Largest number of times save_results writes the same report file.
MaxSaves == 2

\* ------------------------------------------------------- strings and files

Chars == {" ", "#", "a"}

RECURSIVE StringsUpTo(_)
StringsUpTo(n) ==
    IF n = 0 THEN {<<>>}
    ELSE LET shorter == StringsUpTo(n - 1)
         IN  shorter \cup {Append(s, c) : s \in shorter, c \in Chars}

Lines == StringsUpTo(MaxLineLen)

\* A row as csv.reader yields it: no field, one field, or a field and more.
Rows == {<<>>} \cup {<<f>> : f \in Lines} \cup {<<f, <<"a">>>> : f \in Lines}

RECURSIVE SeqsUpTo(_, _)
SeqsUpTo(S, n) ==
    IF n = 0 THEN {<<>>}
    ELSE LET shorter == SeqsUpTo(S, n - 1)
         IN  shorter \cup {Append(s, x) : s \in shorter, x \in S}

\* str.lower on a file extension.
lower(ext) == IF ext = ".CSV" THEN ".csv" ELSE ext

IsSpace(c) == c = " "

RECURSIVE lstrip(_)
lstrip(s) == IF s # <<>> /\ IsSpace(Head(s)) THEN lstrip(Tail(s)) ELSE s

RECURSIVE rstrip(_)
rstrip(s) ==
    IF s # <<>> /\ IsSpace(s[Len(s)]) THEN rstrip(SubSeq(s, 1, Len(s) - 1)) ELSE s

\* str.strip
strip(s) == rstrip(lstrip(s))

\* str.startswith with a one-character prefix.
startswith(s, c) == s # <<>> /\ Head(s) = c

\* No failure while reading.
NoFail == 0 - 1

\* The body of the CSV loop for one row: lines 104-106.
CsvRowStep(urls, row) ==
    IF row # <<>> /\ strip(row[1]) # <<>> THEN Append(urls, strip(row[1])) ELSE urls

TextLineStep_commentFirst(urls, line) ==
    IF strip(line) # <<>> /\ ~startswith(line, "#") THEN Append(urls, strip(line))
    ELSE urls

\* The body of the text loop for one line: lines 110-113.
TextLineStep(urls, line) ==
    LET l == strip(line)
    IN  IF l # <<>> /\ ~startswith(l, "#") THEN Append(urls, l) ELSE urls

\* The for loop over the records i..stop of the file, urls being the list so far.
RECURSIVE ReadLoop(_, _, _, _, _)
ReadLoop(isCsv, content, i, stop, urls) ==
    IF i > stop THEN urls
    ELSE ReadLoop(isCsv, content, i + 1, stop,
                  IF isCsv THEN CsvRowStep(urls, content[i])
                  ELSE TextLineStep(urls, content[i]))

\* What the except clause of read_urls_from_file leaves in urls: the list is
\* created before the try and returned after it, whatever was appended stays.
ReadExcept(urls) == urls

\* read_urls_from_file: failAt = NoFail reads the whole file; failAt = n >= 0
\* is an exception raised after n records were read (0: open() itself fails).
\* The exception is caught by the except clause, reported, and urls returned.
read_urls_from_file(ext, content, failAt) ==
    LET isCsv == lower(ext) = ".csv"
    IN  IF failAt = NoFail
        THEN [urls |-> ReadLoop(isCsv, content, 1, Len(content), <<>>),
              reported |-> FALSE, raised |-> FALSE]
        ELSE [urls |-> ReadExcept(ReadLoop(isCsv, content, 1, failAt, <<>>)),
              reported |-> TRUE, raised |-> FALSE]

\* ------------------------------------------------------------------- state

VARIABLES
    script,       \* which program runs: "batch" or "single" ("read": SpecRead)
    pc,           \* position of main ("input": neither --file nor --urls given)
    urls,         \* main's urls list
    max_workers,  \* args.workers
    max_retries,  \* args.retries
    exit,         \* how the process ended, and its exit status
    printed,      \* the messages of main and batch_download printed so far
    invoked,      \* batch_download has been called
    bpc,          \* position of batch_download
    nsub,         \* number of tasks submitted to the executor
    queue,        \* the executor's work queue (task indices, FIFO)
    numThreads,   \* worker threads the executor has started
    task,         \* per task: its download_video call and future; calls, waits
                  \* and lastFail record the fetch calls made, the sleeps
                  \* taken and the result of the last failed attempt
    early,        \* as_completed: futures already finished when it was called
    pending,      \* as_completed: futures it still waits for
    waiterList,   \* as_completed: waiter.finished_futures, in completion order
    results,      \* batch_download's results list
    returned,     \* what batch_download returned ("none" before)
    report,       \* content of download_results.csv ("none": not written)
    dirExists,    \* the output directory exists
    dirWriters,   \* who wrote into the output directory
    one,          \* single program: its download_video call
    rin,          \* SpecRead: the input of read_urls_from_file
    rout          \* SpecRead: its result ("none" before the call)

vars == <<script, pc, urls, max_workers, max_retries, exit, printed,
          invoked, bpc, nsub, queue, numThreads, task, early, pending, waiterList,
          results, returned, report, dirExists, dirWriters, one, rin, rout>>

mainVars == <<pc, urls, exit, printed>>
poolVars == <<queue, numThreads>>
collectVars == <<early, pending, waiterList, results>>
readVars == <<rin, rout>>
diskVars == <<report, dirExists, dirWriters>>

\* ------------------------------------------------------- program constants

\* sys.exit(1) on any other exception that reaches main.
ExitOnError == 1
ExitOnInterrupt_asError == ExitOnError
\* sys.exit(0) on KeyboardInterrupt.
ExitOnInterrupt == 0
\* main returns: the interpreter ends with status 0.
ExitNormal == 0
\* The single program: sys.exit(0) on KeyboardInterrupt, sys.exit(1) on any
\* other exception that reaches main.
OneExitOnInterrupt == 0
OneExitOnError == 1
\* The retry limit the single program always uses (the parameter's default).
DefaultMaxRetries == 3

Running == [kind |-> "running", status |-> 0]

RECURSIVE Pow2(_)
Pow2(n) == IF n <= 0 THEN 1 ELSE 2 * Pow2(n - 1)

RECURSIVE SumSeq(_)
SumSeq(s) == IF s = <<>> THEN 0 ELSE Head(s) + SumSeq(Tail(s))

Range(s) == {s[i] : i \in 1..Len(s)}

\* ------------------------------------------------- download_video (batch)

\* What extract_info can do: return info with or without a title, return
\* nothing (ignoreerrors), raise DownloadError, raise another exception.
FetchResults == {"info", "untitled", "nothing", "DownloadError", "Exception"}

\* The results explored for task i: all of them for the first task, one
\* success and one failure for the others.
FetchChoices(i) == IF i = 1 THEN FetchResults ELSE {"info", "DownloadError"}

NoOut == [kind |-> "none", success |-> FALSE, title |-> "", error |-> ""]

\* A call that returned the tuple (success, title, error).
Returned(success, title, error) ==
    [kind |-> "return", success |-> success, title |-> title, error |-> error]

\* A call that raised e: the future holds the exception.
Raised(e) == [kind |-> "raise", success |-> FALSE, title |-> "", error |-> e]

\* The call for the URL u and its future. order is kept for a future that
\* finished before as_completed was entered, until it is yielded: the rank
\* of its call among the calls that have ended (0 for every other future).
NewTask(u) ==
    [url |-> u, st |-> "new", retries |-> 0, calls |-> 0, waits |-> <<>>,
     error_msg |-> "", lastFail |-> "", out |-> NoOut, order |-> 0]

\* info.get('title', default)
TitleOf(r) == IF r = "info" THEN "title" ELSE "unknown_title"

\* The message each failure branch of the loop body stores in error_msg.
ErrorMessage(r) ==
    CASE r = "nothing" -> "no_info"
      [] r = "DownloadError" -> "download_error"
      [] OTHER -> "error"

WaitTime_fromZero(retries) == Pow2(retries - 1)

\* wait_time = 2 ** retries
WaitTime(retries) == Pow2(retries)

\* The while condition.
LoopCondition(retries, maxr) == retries < maxr

\* The initial value of error_msg, set before the loop.
InitialErrorMsg == ""

\* One iteration of the while loop, on the call's record t, when extract_info
\* does r: a success returns at once; a failure stores the message, counts the
\* retry and, if another attempt is left, goes to sleep for WaitTime.
LoopBody(t, r, maxr) ==
    IF r \in {"info", "untitled"}
    THEN [t EXCEPT !.calls = @ + 1, !.st = "done", !.error_msg = "",
                   !.lastFail = "",
                   !.out = Returned(TRUE, TitleOf(r), "")]
    ELSE LET n == t.retries + 1
         IN  [t EXCEPT !.calls = @ + 1, !.error_msg = ErrorMessage(r),
                       !.lastFail = r, !.retries = n,
                       !.st = IF n < maxr THEN "sleep" ELSE "loop",
                       !.waits = IF n < maxr THEN Append(@, WaitTime(n)) ELSE @]

\* After the loop: return False, "", error_msg.
LoopExit(t) ==
    [t EXCEPT !.st = "done", !.error_msg = "", !.out = Returned(FALSE, "", t.error_msg)]

Tasks == 1..Len(task)
Active(i) == task[i].st \in {"loop", "sleep"}
InFlight == {i \in Tasks : Active(i)}
NumDone == Cardinality({i \in Tasks : task[i].st = "done"})
EndRank == IF bpc = "submit" THEN NumDone + 1 ELSE 0
PoolRuns == pc = "batch" /\ bpc \in {"submit", "collect", "shutdown"}

FinishTask_noNotify(i, t) ==
    /\ task' = [task EXCEPT ![i] = [t EXCEPT !.order = EndRank]]
    /\ waiterList' = waiterList

\* A worker thread finished the work item of task i with record t: the future
\* is set and its waiters are told.
FinishTask(i, t) ==
    /\ task' = [task EXCEPT ![i] = [t EXCEPT !.order = EndRank]]
    /\ waiterList' = IF bpc = "collect" /\ i \in pending
                     THEN Append(waiterList, i) ELSE waiterList

ThreadFree_sleepBlocksPool ==
    /\ Cardinality(InFlight) < numThreads
    /\ \A i \in Tasks : task[i].st # "sleep"

\* A thread may take a work item when fewer items run than threads exist.
ThreadFree == Cardinality(InFlight) < numThreads

\* An idle worker thread takes the next work item i from the queue and runs
\* download_video up to the loop: the output directory is created when it is
\* missing, and os.makedirs may raise, which ends the call with an exception.
WorkerTake ==
    /\ PoolRuns
    /\ queue # <<>>
    /\ ThreadFree
    /\ queue' = Tail(queue)
    /\ LET i == Head(queue)
           started == [task[i] EXCEPT !.st = "loop", !.retries = 0,
                                      !.error_msg = InitialErrorMsg]
       IN  \/ /\ dirExists
              /\ task' = [task EXCEPT ![i] = started]
              /\ UNCHANGED <<dirExists, dirWriters, waiterList>>
           \/ /\ ~dirExists
              /\ dirExists' = TRUE
              /\ dirWriters' = dirWriters \cup {"worker"}
              /\ task' = [task EXCEPT ![i] = started]
              /\ UNCHANGED waiterList
           \/ /\ ~dirExists
              /\ FinishTask(i, [task[i] EXCEPT !.st = "done",
                                               !.out = Raised("oserror")])
              /\ UNCHANGED <<dirExists, dirWriters>>
    /\ UNCHANGED <<script, mainVars, max_workers, max_retries, invoked, bpc, nsub,
                   numThreads, early, pending, results, returned, report, one,
                   readVars>>

\* One iteration of the retry loop: an attempt, and what follows it.
Attempt(i) ==
    /\ PoolRuns
    /\ task[i].st = "loop"
    /\ LoopCondition(task[i].retries, max_retries)
    /\ \E r \in FetchChoices(i) :
         LET t == LoopBody(task[i], r, max_retries)
         IN  IF t.st = "done"
             THEN /\ FinishTask(i, t)
                  /\ dirWriters' = dirWriters \cup {"worker"}
             ELSE /\ task' = [task EXCEPT ![i] = t]
                  /\ UNCHANGED <<waiterList, dirWriters>>
    /\ UNCHANGED <<script, mainVars, max_workers, max_retries, invoked, bpc, nsub,
                   queue, numThreads, early, pending, results, returned, report,
                   dirExists, one, readVars>>

\* time.sleep(wait_time) returns.
Wake(i) ==
    /\ PoolRuns
    /\ task[i].st = "sleep"
    /\ task' = [task EXCEPT ![i].st = "loop"]
    /\ UNCHANGED <<script, mainVars, max_workers, max_retries, invoked, bpc, nsub,
                   poolVars, collectVars, returned, diskVars, one, readVars>>

\* The loop condition is false: the call returns the failed outcome.
GiveUp(i) ==
    /\ PoolRuns
    /\ task[i].st = "loop"
    /\ ~LoopCondition(task[i].retries, max_retries)
    /\ FinishTask(i, LoopExit(task[i]))
    /\ UNCHANGED <<script, mainVars, max_workers, max_retries, invoked, bpc, nsub,
                   queue, numThreads, early, pending, results, returned, diskVars,
                   one, readVars>>

\* ----------------------------------------------------------- the executor

SpawnAllowed_offByOne(n, maxw) == n <= maxw

\* _adjust_thread_count starts a thread only below max_workers.
SpawnAllowed(n, maxw) == n < maxw

\* executor.submit for the next URL: the work item is queued, and a thread
\* is started unless max_workers threads exist. (An executor that reuses an
\* idle thread instead runs the same work items on fewer threads.)
Submit ==
    /\ pc = "batch" /\ bpc = "submit"
    /\ nsub < Len(task)
    /\ nsub' = nsub + 1
    /\ task' = [task EXCEPT ![nsub + 1].st = "queued"]
    /\ queue' = Append(queue, nsub + 1)
    /\ numThreads' = IF SpawnAllowed(numThreads, max_workers)
                     THEN numThreads + 1 ELSE numThreads
    /\ UNCHANGED <<script, mainVars, max_workers, max_retries, invoked, bpc,
                   collectVars, returned, diskVars, one, readVars>>

\* ---------------------------------------------------------- batch_download

Msg(m) == [msg |-> m, a |-> 0, b |-> 0]

ResultOf_noMessage(i) ==
    [url |-> task[i].url,
     success |-> task[i].out.kind = "return" /\ task[i].out.success,
     title |-> task[i].out.title,
     error |-> IF task[i].out.kind = "return" THEN task[i].out.error ELSE ""]

\* The tuple batch_download appends for the future of task i: the tuple the
\* call returned, or (url, False, "", str(e)) when future.result() raises.
ResultOf(i) ==
    IF task[i].out.kind = "return"
    THEN [url |-> task[i].url, success |-> task[i].out.success,
          title |-> task[i].out.title, error |-> task[i].out.error]
    ELSE [url |-> task[i].url, success |-> FALSE, title |-> "",
          error |-> task[i].out.error]

FutureKeys_byUrl ==
    {i \in 1..Len(task) : /\ task[i].st # "new"
                          /\ \A j \in 1..Len(task) : j > i => task[j].url # task[i].url}

\* The keys of future_to_url: the future of every submitted URL, equal URLs
\* having futures of their own.
FutureKeys == {i \in Tasks : task[i].st # "new"}

\* as_completed is entered once every URL is submitted: the futures finished
\* by then are yielded first, from a set; the others as they finish.
BeginCollect ==
    /\ pc = "batch" /\ bpc = "submit"
    /\ nsub = Len(task)
    /\ bpc' = "collect"
    /\ early' = {i \in FutureKeys : task[i].st = "done"}
    /\ pending' = {i \in FutureKeys : task[i].st # "done"}
    /\ waiterList' = <<>>
    /\ UNCHANGED <<script, mainVars, max_workers, max_retries, invoked, nsub,
                   poolVars, task, results, returned, diskVars, one, readVars>>

YieldEarly_keepsFuture(i) ==
    /\ pc = "batch" /\ bpc = "collect"
    /\ i \in early
    /\ Len(results) <= Len(task)
    /\ results' = Append(results, ResultOf(i))
    /\ UNCHANGED <<script, mainVars, max_workers, max_retries, invoked, bpc, nsub,
                   poolVars, task, early, pending, waiterList, returned, diskVars,
                   one, readVars>>

\* The loop body for a future that had finished before as_completed began.
YieldEarly(i) ==
    /\ pc = "batch" /\ bpc = "collect"
    /\ i \in early
    /\ early' = early \ {i}
    /\ results' = Append(results, ResultOf(i))
    /\ task' = [task EXCEPT ![i].order = 0]
    /\ UNCHANGED <<script, mainVars, max_workers, max_retries, invoked, bpc, nsub,
                   poolVars, pending, waiterList, returned, diskVars, one,
                   readVars>>

YieldNext_savesInLoop ==
    /\ pc = "batch" /\ bpc = "collect"
    /\ early = {}
    /\ waiterList # <<>>
    /\ waiterList' = Tail(waiterList)
    /\ pending' = pending \ {Head(waiterList)}
    /\ results' = Append(results, ResultOf(Head(waiterList)))
    /\ report' = [report EXCEPT !.written = TRUE]
    /\ UNCHANGED <<script, mainVars, max_workers, max_retries, invoked, bpc, nsub,
                   poolVars, task, early, returned, dirExists, dirWriters, one,
                   readVars>>

\* The loop body for the next future that finished after as_completed began.
YieldNext ==
    /\ pc = "batch" /\ bpc = "collect"
    /\ early = {}
    /\ waiterList # <<>>
    /\ waiterList' = Tail(waiterList)
    /\ pending' = pending \ {Head(waiterList)}
    /\ results' = Append(results, ResultOf(Head(waiterList)))
    /\ UNCHANGED <<script, mainVars, max_workers, max_retries, invoked, bpc, nsub,
                   poolVars, task, early, returned, diskVars, one, readVars>>

SuccessCount_countsAll(rs) == Len(rs)

\* success_count = sum(1 for ... if success)
RECURSIVE SuccessCount(_)
SuccessCount(rs) ==
    IF rs = <<>> THEN 0
    ELSE (IF Head(rs).success THEN 1 ELSE 0) + SuccessCount(Tail(rs))

\* The rows save_results writes: the header, then one row per result.
ReportRows(rs) ==
    <<<<"URL", "status", "title", "error">>>> \o
    [k \in 1..Len(rs) |->
        <<rs[k].url, IF rs[k].success THEN "succeeded" ELSE "failed",
          rs[k].title, rs[k].error>>]

\* download_results.csv: whether save_results has written it, its rows, and
\* how many times save_results has written it.
NoReport == [written |-> FALSE, rows |-> <<>>, writes |-> 0]

OpenMode_append(file) == file.rows

\* open(result_file, 'w', ...): the rows the writer starts from; mode 'w'
\* empties a file that exists.
OpenMode(file) == <<>>

save_results_raises(rs, file, ok) ==
    IF ok
    THEN [file |-> [written |-> TRUE, rows |-> OpenMode(file) \o ReportRows(rs),
                    writes |-> file.writes + 1],
          said |-> Msg("saved"), raised |-> FALSE]
    ELSE [file |-> file, said |-> Msg("error"), raised |-> TRUE]

\* save_results(results, output_path) on the report file: ok says whether
\* opening and writing succeed. A failure is printed, never raised.
save_results(rs, file, ok) ==
    IF ok
    THEN [file |-> [written |-> TRUE, rows |-> OpenMode(file) \o ReportRows(rs),
                    writes |-> file.writes + 1],
          said |-> Msg("saved"), raised |-> FALSE]
    ELSE [file |-> file, said |-> Msg("save_error"), raised |-> FALSE]

BatchExit_failOnFailure(rs) ==
    IF SuccessCount(rs) < Len(rs)
    THEN [kind |-> "error", status |-> ExitOnError]
    ELSE [kind |-> "normal", status |-> ExitNormal]

\* How the program ends once batch_download has returned rs: main drops the
\* value and returns, whatever the results are.
BatchExit(rs) == [kind |-> "normal", status |-> ExitNormal]

\* as_completed has yielded every future it was given: the with block ends
\* (shutdown joins the workers), the summary is printed, the report is saved
\* (or saving fails and is reported), the results are returned and main ends.
\* An exception out of save_results would leave batch_download without a
\* return value and reach main's except Exception.
FinishBatch ==
    /\ pc = "batch" /\ bpc = "collect"
    /\ early = {} /\ pending = {}
    /\ queue = <<>> /\ InFlight = {}
    /\ \E saved \in BOOLEAN :
         LET w == save_results(results, report, saved)
         IN  /\ saved => dirExists
             /\ report' = w.file
             /\ dirWriters' = IF saved THEN dirWriters \cup {"main"} ELSE dirWriters
             /\ printed' = printed \cup
                    {[msg |-> "summary", a |-> SuccessCount(results), b |-> Len(task)],
                     w.said}
             /\ bpc' = IF w.raised THEN "raised" ELSE "returned"
             /\ returned' = IF w.raised THEN returned
                            ELSE [done |-> TRUE, value |-> results]
             /\ exit' = IF w.raised THEN [kind |-> "error", status |-> ExitOnError]
                        ELSE BatchExit(results)
    /\ pc' = "exited"
    /\ UNCHANGED <<script, urls, max_workers, max_retries, invoked,
                   nsub, poolVars, task, collectVars, dirExists, one, readVars>>

\* -------------------------------------------------------------- main (batch)

\* The URLs a run may be given.
UrlA == <<"a">>
UrlB == <<"a", "#">>

\* The URL lists explored: up to MaxTasks URLs, UrlA any number of times
\* (duplicates), then UrlB any number of times.
UrlLists ==
    {[k \in 1..n |-> IF k <= m THEN UrlA ELSE UrlB] : n \in 0..MaxTasks, m \in 1..MaxTasks}

\* The batch of the URLs l stays within MaxWork attempts.
WithinWork(l) == Len(l) * max_retries <= MaxWork

\* A text file that lists the URLs l: a comment, a blank line, indented URLs.
TextOf(l) == <<<<"#", "a">>, <<" ">>>> \o [k \in 1..Len(l) |-> <<" ">> \o l[k]]

\* A CSV file that lists the URLs l in its first column, after an empty row.
CsvOf(l) == <<<<>>>> \o [k \in 1..Len(l) |-> <<l[k] \o <<" ">>, <<"a">>>>]

\* What the user may type at the URL prompt.
TypedLines == {<<>>, <<" ">>, UrlA, UrlB, <<" ">> \o UrlA, UrlB \o <<" ">>}

ExitWith(kind, status, m) ==
    /\ pc' = "exited"
    /\ exit' = [kind |-> kind, status |-> status]
    /\ printed' = printed \cup {Msg(m)}

\* args.file is given: urls = read_urls_from_file(args.file).
GetUrlsFromFile ==
    /\ script = "batch" /\ pc = "get_urls"
    /\ \E given \in {l \in UrlLists : WithinWork(l)}, ext \in {".txt", ".csv"} :
         LET content == IF ext = ".csv" THEN CsvOf(given) ELSE TextOf(given)
         IN  \E failAt \in {NoFail} \cup (0..Len(content)) :
               urls' = read_urls_from_file(ext, content, failAt).urls
    /\ pc' = "check"
    /\ UNCHANGED <<script, max_workers, max_retries, exit, printed,
                   invoked, bpc, nsub, poolVars, task, collectVars, returned,
                   diskVars, one, readVars>>

\* args.urls is given (nargs='+': at least one).
GetUrlsFromArgs ==
    /\ script = "batch" /\ pc = "get_urls"
    /\ \E given \in {l \in UrlLists : WithinWork(l)} \ {<<>>} : urls' = given
    /\ pc' = "check"
    /\ UNCHANGED <<script, max_workers, max_retries, exit, printed,
                   invoked, bpc, nsub, poolVars, task, collectVars, returned,
                   diskVars, one, readVars>>

\* The interactive loop: one input() line; a blank line ends the loop.
InputLine ==
    /\ script = "batch" /\ pc = "input"
    /\ \E typed \in TypedLines :
         LET line == strip(typed)
         IN  IF line = <<>>
             THEN pc' = "check_typed" /\ UNCHANGED urls
             ELSE /\ Append(urls, line) \in UrlLists
                  /\ WithinWork(Append(urls, line))
                  /\ urls' = Append(urls, line)
                  /\ UNCHANGED pc
    /\ UNCHANGED <<script, max_workers, max_retries, exit, printed,
                   invoked, bpc, nsub, poolVars, task, collectVars, returned,
                   diskVars, one, readVars>>

CheckUrls_noReturn ==
    /\ script = "batch" /\ pc \in {"check", "check_typed"}
    /\ pc' = IF pc = "check_typed" THEN "prompts" ELSE "start_batch"
    /\ UNCHANGED <<script, urls, exit, printed, max_workers, max_retries, invoked,
                   bpc, nsub, poolVars, task, collectVars, returned, diskVars, one,
                   readVars>>

\* if not urls: print the message and return.
CheckUrls ==
    /\ script = "batch" /\ pc \in {"check", "check_typed"}
    /\ IF urls = <<>>
       THEN ExitWith("normal", ExitNormal, "no_urls")
       ELSE /\ pc' = IF pc = "check_typed" THEN "prompts" ELSE "start_batch"
            /\ UNCHANGED <<exit, printed>>
    /\ UNCHANGED <<script, urls, max_workers, max_retries, invoked,
                   bpc, nsub, poolVars, task, collectVars, returned, diskVars, one,
                   readVars>>

\* Interactive mode: the path and proxy prompts, the configuration, and the
\* confirmation; any answer but y returns from main.
Prompts ==
    /\ script = "batch" /\ pc = "prompts"
    /\ \E confirm \in {"y", "n"} :
         IF confirm = "y"
         THEN pc' = "start_batch" /\ UNCHANGED <<exit, printed>>
         ELSE ExitWith("normal", ExitNormal, "user_cancelled_download")
    /\ UNCHANGED <<script, urls, max_workers, max_retries, invoked,
                   bpc, nsub, poolVars, task, collectVars, returned, diskVars, one,
                   readVars>>

\* input() at end of input raises EOFError, which main's except Exception
\* reports before sys.exit(1).
InputEOF ==
    /\ script = "batch" /\ pc \in {"input", "prompts"}
    /\ ExitWith("error", ExitOnError, "error")
    /\ UNCHANGED <<script, urls, max_workers, max_retries, invoked,
                   bpc, nsub, poolVars, task, collectVars, returned, diskVars, one,
                   readVars>>

\* main calls batch_download: total and results are set, and the executor is
\* created, which raises ValueError for max_workers <= 0; main's except
\* Exception turns that into sys.exit(1).
StartBatch ==
    /\ script = "batch" /\ pc = "start_batch"
    /\ invoked' = TRUE
    /\ task' = [k \in 1..Len(urls) |-> NewTask(urls[k])]
    /\ results' = <<>>
    /\ IF max_workers <= 0
       THEN /\ ExitWith("error", ExitOnError, "error")
            /\ UNCHANGED bpc
       ELSE /\ pc' = "batch"
            /\ bpc' = "submit"
            /\ printed' = printed \cup {Msg("start")}
            /\ UNCHANGED exit
    /\ UNCHANGED <<script, urls, max_workers, max_retries, nsub,
                   poolVars, early, pending, waiterList, returned, diskVars, one,
                   readVars>>

\* KeyboardInterrupt in main's thread. Before the batch it reaches main's
\* handler at once. Inside the with block it first runs the executor's
\* shutdown(wait=True), which joins the worker threads; as_completed is
\* left, and with it the futures it had still to yield.
Interrupt ==
    /\ script = "batch" /\ pc # "exited"
    /\ IF pc = "batch"
       THEN /\ bpc \in {"submit", "collect"}
            /\ bpc' = "shutdown"
            /\ task' = [i \in Tasks |-> [task[i] EXCEPT !.order = 0]]
            /\ UNCHANGED <<pc, exit, printed>>
       ELSE /\ ExitWith("cancel", ExitOnInterrupt, "user_cancelled")
            /\ UNCHANGED <<bpc, task>>
    /\ UNCHANGED <<script, urls, max_workers, max_retries, invoked,
                   nsub, poolVars, collectVars, returned, diskVars, one,
                   readVars>>

\* The worker threads have drained the queue and ended: the interrupt reaches
\* main's handler, which prints and calls sys.exit(0).
ShutdownDone ==
    /\ script = "batch" /\ pc = "batch" /\ bpc = "shutdown"
    /\ queue = <<>> /\ InFlight = {}
    /\ ExitWith("cancel", ExitOnInterrupt, "user_cancelled")
    /\ bpc' = "aborted"
    /\ UNCHANGED <<script, urls, max_workers, max_retries, invoked,
                   nsub, poolVars, task, collectVars, returned, diskVars, one,
                   readVars>>

\* ------------------------------------------------------ the single program

NewOne(proxy, round) ==
    [st |-> "prepare", retries |-> 0, calls |-> 0, waits |-> <<>>, ret |-> "none",
     round |-> round, proxy |-> proxy]

IdleOne == [NewOne(FALSE, 1) EXCEPT !.st = "idle"]

\* wait_time = 2 ** retries (download_youtube_yt_dlp.py)
OneWaitTime(retries) == Pow2(retries)

\* The while condition (download_youtube_yt_dlp.py).
OneLoopCondition(retries, maxr) == retries < maxr

\* One iteration of the single program's while loop.
OneLoopBody(c, r, maxr) ==
    IF r \in {"info", "untitled"}
    THEN [c EXCEPT !.calls = @ + 1, !.st = "done", !.ret = "True"]
    ELSE LET n == c.retries + 1
         IN  [c EXCEPT !.calls = @ + 1, !.retries = n,
                       !.st = IF n < maxr THEN "sleep" ELSE "loop",
                       !.waits = IF n < maxr THEN Append(@, OneWaitTime(n)) ELSE @]

singleRest == <<script, urls, max_workers, max_retries, invoked, bpc,
                nsub, poolVars, task, collectVars, returned, report, readVars>>

\* main up to the first download_video call: the URL, the path and the proxy
\* come from the arguments or from input().
SPrompts ==
    /\ script = "single" /\ pc = "s_args"
    /\ \E proxy \in BOOLEAN : one' = NewOne(proxy, 1)
    /\ pc' = "s_download"
    /\ UNCHANGED <<singleRest, exit, printed, dirExists, dirWriters>>

\* input() at end of input: EOFError reaches except Exception, sys.exit(1).
SInputEOF ==
    /\ script = "single" /\ pc = "s_args"
    /\ ExitWith("error", OneExitOnError, "error")
    /\ UNCHANGED <<singleRest, one, dirExists, dirWriters>>

\* download_video up to the loop; os.makedirs may raise, and the exception
\* reaches main's except Exception.
SPrepare ==
    /\ script = "single" /\ pc = "s_download" /\ one.st = "prepare"
    /\ \/ /\ dirExists
          /\ one' = [one EXCEPT !.st = "loop"]
          /\ UNCHANGED <<pc, exit, printed, dirExists, dirWriters>>
       \/ /\ ~dirExists
          /\ dirExists' = TRUE
          /\ dirWriters' = dirWriters \cup {"main"}
          /\ one' = [one EXCEPT !.st = "loop"]
          /\ UNCHANGED <<pc, exit, printed>>
       \/ /\ ~dirExists
          /\ ExitWith("error", OneExitOnError, "error")
          /\ UNCHANGED <<one, dirExists, dirWriters>>
    /\ UNCHANGED singleRest

\* One iteration of the retry loop with the default max_retries.
SAttempt ==
    /\ script = "single" /\ pc = "s_download" /\ one.st = "loop"
    /\ OneLoopCondition(one.retries, DefaultMaxRetries)
    /\ \E r \in FetchResults : one' = OneLoopBody(one, r, DefaultMaxRetries)
    /\ UNCHANGED <<singleRest, pc, exit, printed, dirExists, dirWriters>>

\* time.sleep(wait_time) returns.
SWake ==
    /\ script = "single" /\ pc = "s_download" /\ one.st = "sleep"
    /\ one' = [one EXCEPT !.st = "loop"]
    /\ UNCHANGED <<singleRest, pc, exit, printed, dirExists, dirWriters>>

\* The loop condition is false: return False.
SGiveUp ==
    /\ script = "single" /\ pc = "s_download" /\ one.st = "loop"
    /\ ~OneLoopCondition(one.retries, DefaultMaxRetries)
    /\ one' = [one EXCEPT !.st = "done", !.ret = "False"]
    /\ UNCHANGED <<singleRest, pc, exit, printed, dirExists, dirWriters>>

\* After download_video: a failed download through a proxy may be tried once
\* more without it; otherwise main ends.
SAfterDownload ==
    /\ script = "single" /\ pc = "s_download" /\ one.st = "done"
    /\ IF one.round = 1 /\ one.ret = "False" /\ one.proxy
       THEN \E try_direct \in BOOLEAN :
              IF try_direct
              THEN one' = NewOne(FALSE, 2) /\ UNCHANGED <<pc, exit, printed>>
              ELSE ExitWith("normal", ExitNormal, "end") /\ UNCHANGED one
       ELSE ExitWith("normal", ExitNormal, "end") /\ UNCHANGED one
    /\ UNCHANGED <<singleRest, dirExists, dirWriters>>

\* KeyboardInterrupt anywhere in main: print and sys.exit(0).
SInterrupt ==
    /\ script = "single" /\ pc # "exited"
    /\ ExitWith("cancel", OneExitOnInterrupt, "user_cancelled")
    /\ UNCHANGED <<singleRest, one, dirExists, dirWriters>>

\* ------------------------------------------------------ read_urls_from_file

NoRout == [done |-> FALSE, urls |-> <<>>, reported |-> FALSE, raised |-> FALSE]
NoRin == [ext |-> "", content |-> <<>>, failAt |-> NoFail]

\* The characters of a line, or of the fields of a row.
RECURSIVE RecordChars(_, _)
RecordChars(isCsv, rec) ==
    IF ~isCsv THEN Len(rec)
    ELSE IF rec = <<>> THEN 0
    ELSE Len(Head(rec)) + RecordChars(isCsv, Tail(rec))

\* The files of at most n records and at most c characters.
RECURSIVE FilesUpTo(_, _, _)
FilesUpTo(isCsv, n, c) ==
    IF n = 0 THEN {<<>>}
    ELSE {<<>>} \cup
         UNION {{<<rec>> \o f : f \in FilesUpTo(isCsv, n - 1, c - RecordChars(isCsv, rec))} :
                rec \in {x \in (IF isCsv THEN Rows ELSE Lines) :
                           RecordChars(isCsv, x) <= c}}

\* The inputs of read_urls_from_file: a text or CSV file, read completely or
\* up to a failure.
ReadInputs(n, c) ==
    {[ext |-> e, content |-> f, failAt |-> k] :
        e \in {".txt", ""}, f \in FilesUpTo(FALSE, n, c), k \in {NoFail} \cup (0..n)}
    \cup
    {[ext |-> e, content |-> f, failAt |-> k] :
        e \in {".csv", ".CSV"}, f \in FilesUpTo(TRUE, n, c), k \in {NoFail} \cup (0..n)}

\* The call read_urls_from_file(file_path).
ReadCall ==
    /\ script = "read" /\ ~rout.done
    /\ LET r == read_urls_from_file(rin.ext, rin.content, rin.failAt)
       IN  rout' = [done |-> TRUE, urls |-> r.urls, reported |-> r.reported,
                    raised |-> r.raised]
    /\ UNCHANGED <<script, mainVars, max_workers, max_retries, invoked, bpc, nsub,
                   poolVars, task, collectVars, returned, diskVars, one, rin>>

\* ------------------------------------------------- save_results on its own

\* The tuples batch_download can append for the URL u.
OutcomesOf(u) ==
    {[url |-> u, success |-> TRUE, title |-> TitleOf(r), error |-> ""] :
        r \in {"info", "untitled"}}
    \cup {[url |-> u, success |-> FALSE, title |-> "", error |-> e] :
        e \in {ErrorMessage(r) : r \in FetchResults \ {"info", "untitled"}}
              \cup {InitialErrorMsg, "oserror"}}

\* The result lists of up to n tuples.
ResultLists(n) == SeqsUpTo(OutcomesOf(UrlA) \cup OutcomesOf(UrlB), n)

\* A report file left by an earlier run.
OldReport == [written |-> FALSE, rows |-> ReportRows(<<>>) \o <<<<"old">>>>, writes |-> 0]

\* The call save_results(results, output_path).
SaveCall ==
    /\ script = "save"
    /\ report.writes < MaxSaves
    /\ \E ok \in BOOLEAN :
         LET w == save_results(results, report, ok)
         IN  /\ report' = w.file
             /\ printed' = printed \cup {w.said}
    /\ UNCHANGED <<script, pc, urls, exit, max_workers, max_retries, invoked, bpc,
                   nsub, poolVars, task, collectVars, returned, dirExists,
                   dirWriters, one, readVars>>

\* ---------------------------------------------------------- specifications

InitCommon ==
    /\ urls = <<>>
    /\ exit = Running
    /\ printed = {}
    /\ invoked = FALSE
    /\ bpc = "idle"
    /\ nsub = 0
    /\ queue = <<>>
    /\ numThreads = 0
    /\ task = <<>>
    /\ early = {}
    /\ pending = {}
    /\ waiterList = <<>>
    /\ returned = [done |-> FALSE, value |-> <<>>]
    /\ dirWriters = {}
    /\ one = IdleOne

InitBatch ==
    /\ script = "batch"
    /\ results = <<>> /\ report = NoReport
    /\ pc \in {"get_urls", "input"}
    /\ max_workers \in 0..MaxWorkers
    /\ max_retries \in (0 - 1)..MaxRetries
    /\ dirExists \in BOOLEAN
    /\ rin = NoRin /\ rout = NoRout
    /\ InitCommon

InitSingle ==
    /\ script = "single"
    /\ results = <<>> /\ report = NoReport
    /\ pc = "s_args"
    /\ max_workers = 0
    /\ max_retries = DefaultMaxRetries
    /\ dirExists \in BOOLEAN
    /\ rin = NoRin /\ rout = NoRout
    /\ InitCommon

Init == InitBatch \/ InitSingle

Next ==
    \/ GetUrlsFromFile
    \/ GetUrlsFromArgs
    \/ InputLine
    \/ InputEOF
    \/ CheckUrls
    \/ Prompts
    \/ StartBatch
    \/ Submit
    \/ WorkerTake
    \/ \E i \in Tasks : Attempt(i)
    \/ \E i \in Tasks : Wake(i)
    \/ \E i \in Tasks : GiveUp(i)
    \/ BeginCollect
    \/ \E i \in Tasks : YieldEarly(i)
    \/ YieldNext
    \/ FinishBatch
    \/ Interrupt
    \/ ShutdownDone
    \/ SPrompts
    \/ SInputEOF
    \/ SPrepare
    \/ SAttempt
    \/ SWake
    \/ SGiveUp
    \/ SAfterDownload
    \/ SInterrupt

Spec == Init /\ [][Next]_vars

\* A step of the main thread inside batch_download.
MainStep ==
    \/ Submit
    \/ BeginCollect
    \/ \E i \in Tasks : YieldEarly(i)
    \/ YieldNext
    \/ FinishBatch

\* A step of some worker thread.
WorkerStep ==
    \/ WorkerTake
    \/ \E i \in Tasks : Attempt(i) \/ Wake(i) \/ GiveUp(i)

\* main is about to call batch_download, with a list of 1..MaxLiveTasks URLs
\* that needs at most MaxLiveWork attempts.
InitLive ==
    /\ script = "batch"
    /\ pc = "start_batch"
    /\ max_workers \in 0..MaxWorkers
    /\ max_retries \in (0 - 1)..MaxRetries
    /\ dirExists \in BOOLEAN
    /\ urls \in {l \in UrlLists \ {<<>>} : /\ Len(l) <= MaxLiveTasks
                                             /\ Len(l) * max_retries <= MaxLiveWork}
    /\ exit = Running
    /\ printed = {}
    /\ invoked = FALSE
    /\ bpc = "idle"
    /\ nsub = 0
    /\ queue = <<>>
    /\ numThreads = 0
    /\ task = <<>>
    /\ early = {}
    /\ pending = {}
    /\ waiterList = <<>>
    /\ results = <<>> /\ report = NoReport
    /\ returned = [done |-> FALSE, value |-> <<>>]
    /\ dirWriters = {}
    /\ one = IdleOne
    /\ rin = NoRin /\ rout = NoRout

\* A call of batch_download that no interrupt reaches, with threads that are
\* scheduled fairly and fetch attempts and sleeps that end: the main thread
\* inside batch_download takes its next step when it stays possible, and so
\* does the pool, that is, some worker that can take a step does.
NextLive == StartBatch \/ MainStep \/ WorkerStep

Fairness == WF_vars(MainStep) /\ WF_vars(WorkerStep)

SpecLive == InitLive /\ [][NextLive]_vars /\ Fairness

InitRead ==
    /\ script = "read"
    /\ results = <<>> /\ report = NoReport
    /\ pc = "exited"
    /\ max_workers = 0
    /\ max_retries = 0
    /\ dirExists = TRUE
    /\ rin \in ReadInputs(MaxLines, MaxFileChars)
    /\ rin.failAt <= Len(rin.content)
    /\ rout = NoRout
    /\ InitCommon

NextRead == ReadCall

SpecRead == InitRead /\ [][NextRead]_vars

InitSave ==
    /\ script = "save"
    /\ pc = "exited"
    /\ max_workers = 0
    /\ max_retries = 0
    /\ dirExists = TRUE
    /\ results \in ResultLists(MaxRows)
    /\ report \in {NoReport, OldReport}
    /\ rin = NoRin /\ rout = NoRout
    /\ InitCommon

NextSave == SaveCall

SpecSave == InitSave /\ [][NextSave]_vars

\* ------------------------------------------------------------------ claims

RowCount(rs, v) == Cardinality({k \in 1..Len(rs) : rs[k] = v})

\* The outcome of the URL at position i, read off its download_video call.
ExpectedRow(i) ==
    [url |-> urls[i],
     success |-> task[i].out.kind = "return" /\ task[i].out.success,
     title |-> IF task[i].out.kind = "return" THEN task[i].out.title ELSE "",
     error |-> task[i].out.error]

Positions == 1..Len(urls)

\* C1: when batch_download returns (no interrupt), its result holds exactly one
\* outcome per position of the URL list, duplicates included: as many entries
\* as URLs, every call finished, and every outcome present as often as there
\* are positions that produced it.
C1_OneOutcomePerUrl ==
    returned.done =>
        /\ Len(returned.value) = Len(urls)
        /\ \A i \in Positions : task[i].st = "done"
        /\ \A i \in Positions :
             RowCount(returned.value, ExpectedRow(i)) =
                 Cardinality({j \in Positions : ExpectedRow(j) = ExpectedRow(i)})

C1_Witness ==
    /\ returned.done
    /\ Len(urls) = 3 /\ urls[1] = urls[2] /\ urls[2] # urls[3]
    /\ max_workers = 2
    /\ \E i, j \in Positions : ExpectedRow(i).success /\ ~ExpectedRow(j).success

\* C2: a call that succeeds on attempt k made exactly k fetch calls, k being
\* at most max_retries; a call that returns failure made exactly max_retries
\* fetch calls; this for every value of --retries.
C2_ExactFetchCalls ==
    /\ \A i \in Tasks :
         task[i].out.kind = "return" =>
             IF task[i].out.success
             THEN task[i].calls = task[i].retries + 1 /\ task[i].calls <= max_retries
             ELSE task[i].calls = max_retries
    /\ one.st = "done" =>
         IF one.ret = "True"
         THEN one.calls = one.retries + 1 /\ one.calls <= DefaultMaxRetries
         ELSE one.calls = DefaultMaxRetries

\* The waits of a call that ends on attempt k: 2^1, ..., 2^(k-1), in this order.
ExpectedWaits(k) == [n \in 1..(k - 1) |-> 2 ^ n]

\* C3: a call that has ended on attempt k slept 2^1, ..., 2^(k-1) seconds, in
\* this order and nothing after the last attempt, in total 2^k - 2 seconds
\* (0 when no attempt was made); a call asleep after its n-th failed attempt
\* has slept 2^1, ..., 2^n.
C3_BackoffWaits ==
    /\ \A i \in Tasks :
         /\ task[i].out.kind = "return" =>
                /\ task[i].waits = ExpectedWaits(task[i].calls)
                /\ SumSeq(task[i].waits) =
                       IF task[i].calls >= 1 THEN 2 ^ task[i].calls - 2 ELSE 0
         /\ task[i].st = "sleep" => task[i].waits = ExpectedWaits(task[i].calls + 1)
    /\ one.st = "done" =>
         /\ one.waits = ExpectedWaits(one.calls)
         /\ SumSeq(one.waits) = 2 ^ one.calls - 2
    /\ one.st = "sleep" => one.waits = ExpectedWaits(one.calls + 1)

C3_Witness ==
    /\ \E i \in Tasks : task[i].out.kind = "return" /\ task[i].waits = <<2, 4>>
    /\ \E i \in Tasks : task[i].out.kind = "return" /\ task[i].out.success
                        /\ task[i].waits = <<2>>

\* C4: a failed outcome of download_video, for any max_retries, has an empty
\* title and a non-empty error, the message of the last failed attempt; and no
\* fetch failure makes the call raise.
C4_FailedOutcomeHasLastError ==
    \A i \in Tasks :
        /\ task[i].out.kind = "return" /\ ~task[i].out.success =>
               /\ task[i].out.title = ""
               /\ task[i].out.error # ""
               /\ task[i].out.error = ErrorMessage(task[i].lastFail)
        /\ task[i].calls > 0 => task[i].out.kind # "raise"

\* C5: at any moment of a batch run at most max_workers calls are under way
\* (attempting a fetch or asleep in backoff).
C5_ConcurrencyBound ==
    script = "batch" /\ invoked /\ max_workers >= 1 =>
        Cardinality({i \in Tasks : task[i].st \in {"loop", "sleep"}}) <= max_workers

C5_Witness ==
    /\ max_workers = 2
    /\ Cardinality({i \in Tasks : task[i].st \in {"loop", "sleep"}}) = 2
    /\ \E i \in Tasks : task[i].st = "sleep"
    /\ queue # <<>>

\* C6: when a call raises an error of its own (os.makedirs), the batch still
\* returns one outcome for every URL: for the crashed call a failure with the
\* error's message and no title, for every other call its own outcome; and the
\* program does not end as an error.
C6_CrashIsolated ==
    /\ returned.done =>
         \A i \in Positions :
             task[i].out.kind = "raise" =>
                 /\ ExpectedRow(i) = [url |-> urls[i], success |-> FALSE,
                                      title |-> "", error |-> "oserror"]
                 /\ \A j \in Positions :
                      /\ task[j].st = "done"
                      /\ task[j].out.kind # "none"
                      /\ \E k \in 1..Len(returned.value) :
                           returned.value[k] = ExpectedRow(j)
                 /\ Len(returned.value) = Len(urls)
    /\ (\E i \in Tasks : task[i].out.kind = "raise") => exit.kind # "error"

C6_Witness ==
    /\ returned.done
    /\ Len(urls) = 3
    /\ Cardinality({i \in Positions : task[i].out.kind = "raise"}) = 1
    /\ \E j \in Positions : task[j].out.kind = "return" /\ task[j].out.success
    /\ \E j \in Positions : task[j].out.kind = "return" /\ ~task[j].out.success

\* C7: read_urls_from_file returns the empty list whenever reading fails, also
\* after some lines or rows were read, and it never raises.
C7_EmptyOnFailure ==
    rout.done /\ rin.failAt # NoFail => rout.urls = <<>> /\ ~rout.raised

\* The first and the last position of s that hold no white space.
FirstInk(s) == CHOOSE i \in 1..Len(s) : s[i] # " " /\ \A j \in 1..(i - 1) : s[j] = " "
LastInk(s) == CHOOSE i \in 1..Len(s) : s[i] # " " /\ \A j \in (i + 1)..Len(s) : s[j] = " "

\* s without its leading and trailing white space.
Stripped(s) ==
    IF \A i \in 1..Len(s) : s[i] = " " THEN <<>>
    ELSE SubSeq(s, FirstInk(s), LastInk(s))

IsUrlLine(l) == l # <<>> /\ l[1] # "#"

\* C8: for a text file read without error the result is, in file order, the
\* stripped lines that are not blank and do not start with #.
C8_TextLines ==
    rout.done /\ lower(rin.ext) # ".csv" /\ rin.failAt = NoFail =>
        rout.urls = SelectSeq([k \in 1..Len(rin.content) |-> Stripped(rin.content[k])],
                              IsUrlLine)

C8_Witness ==
    /\ rout.done /\ lower(rin.ext) # ".csv" /\ rin.failAt = NoFail
    /\ rin.content = << <<" ", "#">>, <<"a">> >>
    /\ rout.urls = << <<"a">> >>

\* C9: with an empty URL list batch_download is never called: no fetch call is
\* made and no report is written; and the program that has said that there is
\* nothing to do has an empty list and ended normally, with status 0.
C9_NothingToDo ==
    /\ script = "batch" /\ urls = <<>> =>
         /\ ~invoked
         /\ task = <<>>
         /\ ~report.written
         /\ ~returned.done
    /\ Msg("no_urls") \in printed =>
         /\ urls = <<>>
         /\ pc = "exited"
         /\ exit = [kind |-> "normal", status |-> 0]
    /\ pc \in {"prompts", "start_batch", "batch"} => urls # <<>>

C9_Witness == Msg("no_urls") \in printed /\ pc = "exited"

\* C10 as claimed: the exit status after an interrupt differs from the status
\* of an unhandled error and from the status of normal completion.
C10_DedicatedStatus ==
    exit.kind = "cancel" =>
        /\ exit.status # ExitOnError /\ exit.status # OneExitOnError
        /\ exit.status # ExitNormal

\* C10, amended: an interrupt ends the process with status 0, which differs
\* from the status of an unhandled error, 1, and equals the status of normal
\* completion; in the batch phase the process ends once the workers have.
C10_InterruptStatus ==
    /\ exit.kind = "cancel" => exit.status = 0 /\ exit.status # ExitOnError
                               /\ exit.status # OneExitOnError
    /\ exit.kind = "error" => exit.status = 1
    /\ exit.kind = "normal" => exit.status = 0
    /\ exit.kind = "cancel" /\ invoked => queue = <<>> /\ InFlight = {}

C10_Witness ==
    /\ exit.kind = "cancel"
    /\ script = "batch" /\ bpc = "aborted"
    /\ \E i \in Tasks : task[i].st = "done"

\* C11: a batch run that was started (a usable worker count) and is over
\* without an interrupt has ended normally, with status 0, whatever the
\* outcomes are: batch_download returned an outcome for every URL, the summary
\* was printed and the report step was taken (saved, or its failure reported);
\* and while the batch is under way the program has not ended.
C11_FailuresDoNotEscalate ==
    /\ script = "batch" /\ invoked /\ max_workers >= 1 /\ pc = "exited"
       /\ exit.kind # "cancel" =>
           /\ exit = [kind |-> "normal", status |-> 0]
           /\ returned.done
           /\ Len(returned.value) = Len(urls)
           /\ \E m \in printed : m.msg = "summary"
           /\ Msg("saved") \in printed \/ Msg("save_error") \in printed
    /\ script = "batch" /\ exit.kind = "error" =>
           \/ ~invoked
           \/ max_workers <= 0 /\ \A i \in Tasks : task[i].st = "new"
    /\ pc = "batch" => exit = Running

C11_Witness ==
    /\ script = "batch" /\ pc = "exited" /\ exit.kind = "normal"
    /\ returned.done /\ Len(returned.value) = 3
    /\ \A k \in 1..Len(returned.value) : ~returned.value[k].success
    /\ \E i \in Tasks : task[i].out.kind = "raise"
    /\ \E i \in Tasks : task[i].out.kind = "return" /\ task[i].calls = max_retries

\* C12: whatever the report file held before, after save_results has written
\* it, once or twice, it holds the header row followed by one row per outcome
\* of the collection, in the collection's order, each row being the outcome's
\* URL, the label that goes with its succeeded flag, its title and its error.
C12_ReportOfResults ==
    script = "save" /\ report.writes >= 1 =>
        /\ Len(report.rows) = Len(results) + 1
        /\ report.rows[1] = <<"URL", "status", "title", "error">>
        /\ \A k \in 1..Len(results) :
             /\ Len(report.rows[k + 1]) = 4
             /\ report.rows[k + 1][1] = results[k].url
             /\ report.rows[k + 1][2] = "succeeded" <=> results[k].success
             /\ report.rows[k + 1][2] = "failed" <=> ~results[k].success
             /\ report.rows[k + 1][3] = results[k].title
             /\ report.rows[k + 1][4] = results[k].error

C12_Witness ==
    /\ script = "save" /\ report.writes = 2
    /\ Len(results) = 2
    /\ results[1].success /\ ~results[2].success
    /\ Len(report.rows) = 3

\* The summary lines printed so far.
Summaries == {m \in printed : m.msg = "summary"}

\* C13: the summary of a batch run gives success_count/total, total being
\* the number of input URLs and success_count the number of collected
\* outcomes that succeeded, so that 0 <= success_count <= total; it is
\* printed once, when batch_download returns.
C13_SummaryCounts ==
    /\ \A m \in Summaries :
         /\ returned.done
         /\ m.b = Len(urls)
         /\ m.a = Cardinality({k \in 1..Len(returned.value) : returned.value[k].success})
         /\ 0 <= m.a /\ m.a <= m.b
    /\ Cardinality(Summaries) <= 1
    /\ returned.done => Summaries # {}

C13_Witness ==
    /\ Len(urls) = 3 /\ max_workers = 2 /\ max_retries = 1
    /\ \A i \in Tasks : task[i].out = Returned(TRUE, "title", "") /\ task[i].calls = 1
    /\ [msg |-> "summary", a |-> 3, b |-> 3] \in printed
    /\ Len(returned.value) = 3

\* C14: the result list is in completion order, also for the calls that
\* ended while the orchestrator was still submitting or had not begun to
\* collect: when the outcome of such a call is collected, no call that ended
\* before it is still waiting to be collected.
C14_CompletionOrder ==
    [][\A i \in Tasks :
          i \in early /\ i \notin early' =>
              \A j \in early : task[i].order <= task[j].order]_vars

\* The result list holds outcomes of ended calls only, each call at most once.
OneOutcomePerEndedCall ==
    /\ Len(results) <= nsub
    /\ \A k \in 1..Len(results) :
         RowCount(results, results[k]) <=
             Cardinality({i \in Tasks : task[i].st = "done" /\ ResultOf(i) = results[k]})

\* C15: at every point of a batch run, also after an interrupt, the result
\* list only grows at its end, by one outcome at a time; what it holds are
\* outcomes of calls that have ended, each call at most once, so never more
\* than the tasks submitted; and the outcome of an ended call never changes.
C15_AppendOnly ==
    /\ [][/\ Len(results') >= Len(results)
          /\ Len(results') <= Len(results) + 1
          /\ SubSeq(results', 1, Len(results)) = results
          /\ \A i \in Tasks : task[i].st = "done" =>
                 task'[i].st = "done" /\ task'[i].out = task[i].out]_vars
    /\ []OneOutcomePerEndedCall

C15_Witness ==
    /\ bpc = "aborted"
    /\ Len(task) = 3 /\ Len(results) = 1
    /\ \A i \in Tasks : task[i].st = "done"

\* C16 as claimed: in a batch run nothing but the orchestrating thread writes
\* into the output directory, and nothing is written into it while a task is
\* queued or in flight.
C16_OnlyOrchestratorWrites ==
    script = "batch" =>
        /\ "worker" \notin dirWriters
        /\ dirWriters # {} => queue = <<>> /\ InFlight = {}

\* C16, amended: the report file is written only by the orchestrating
\* thread, in batch_download's last step, when every call has ended and its
\* outcome is collected; the output directory is also created and written
\* into by the workers, which is the only writing done while the pool runs.
C16_ReportAfterPool ==
    script = "batch" =>
        /\ report.written =>
              /\ bpc = "returned" /\ "main" \in dirWriters
              /\ queue = <<>> /\ InFlight = {}
              /\ \A i \in Tasks : task[i].st = "done"
              /\ Len(results) = Len(task)
              /\ report.rows = ReportRows(results)
        /\ "main" \in dirWriters => report.written
        /\ PoolRuns => dirWriters \subseteq {"worker"} /\ report = NoReport

C16_Witness ==
    /\ script = "batch" /\ report.written
    /\ dirWriters = {"worker", "main"}
    /\ Len(task) = 3

\* The calls asleep in backoff.
Asleep == {i \in Tasks : task[i].st = "sleep"}

\* C17: while a call sleeps in backoff, a worker without a call can start
\* the next queued task, every other call under way can take its next step
\* (an attempt, or its return), and the sleep itself can end; the sleeping
\* call has no outcome yet and counts among the at most max_workers calls
\* under way, and it stays among them until it has its outcome.
C17_BackoffBlocksOneWorker ==
    /\ [](PoolRuns /\ Asleep # {} =>
            /\ queue # <<>> /\ Cardinality(InFlight) < numThreads => ENABLED WorkerTake
            /\ \A j \in Tasks : task[j].st = "loop" => ENABLED (Attempt(j) \/ GiveUp(j))
            /\ \A i \in Asleep :
                 /\ ENABLED Wake(i)
                 /\ task[i].out = NoOut
                 /\ i \in InFlight
            /\ Cardinality(InFlight) <= max_workers)
    /\ [][\A i \in Asleep : task'[i].st \in {"sleep", "loop"}]_vars
    /\ [][\A i \in Tasks : task[i].st = "loop" =>
              task'[i].st \in {"loop", "sleep"} \/ task'[i].out # NoOut]_vars

C17_Witness ==
    /\ PoolRuns /\ max_workers = 2 /\ Len(task) = 3
    /\ task[1].st = "sleep" /\ task[1].retries = 1
    /\ task[2].st = "done"
    /\ queue = <<3>> /\ numThreads = 2

\* C18: once an interrupt has arrived during a batch run, no task that is
\* still queued is started: a queued task stays queued in every later step.
C18_InterruptStopsNewTasks ==
    [][bpc = "shutdown" =>
          \A i \in Tasks : task[i].st = "queued" => task'[i].st = "queued"]_vars

\* The batch run is complete: summary printed, result list returned.
Completed == bpc = "returned" /\ returned.done /\ Summaries # {} /\ pc = "exited"

\* C19: in a run without interrupt, with fair threads and fetches that end,
\* for every URL list, every worker count >= 1 and every max_retries, a batch
\* run that has begun (tasks not yet submitted, queued, under way or asleep)
\* reaches completion in the end, and by then every task has been started
\* and has ended with its outcome: none is left queued, and the run does not
\* get stuck.
C19_EveryTaskEndsAndRunCompletes ==
    (pc = "batch") ~>
        (/\ Completed
         /\ queue = <<>>
         /\ \A i \in Tasks : task[i].st = "done" /\ task[i].out # NoOut)

C19_Witness ==
    /\ Completed
    /\ Len(task) = 2 /\ max_workers = 1
    /\ task[1].calls = 2 /\ task[1].waits = <<2>>
    /\ \A i \in Tasks : task[i].st = "done"

\* C20: a batch run that is over without an interrupt and without a report
\* written by it is a run whose save_results failed: the failure was printed
\* and not raised, batch_download returned the whole result list as it was
\* collected, one outcome per URL, and the program ended normally, status 0.
C20_SaveFailureIsLocal ==
    /\ script = "batch" /\ invoked /\ max_workers >= 1 /\ pc = "exited"
       /\ exit.kind # "cancel" /\ ~report.written =>
           /\ Msg("save_error") \in printed
           /\ bpc = "returned"
           /\ returned.done
           /\ returned.value = results
           /\ Len(returned.value) = Len(urls)
           /\ \A i \in Positions : \E k \in 1..Len(returned.value) :
                  returned.value[k] = ExpectedRow(i)
           /\ exit = [kind |-> "normal", status |-> 0]
    /\ Msg("save_error") \in printed => ~report.written /\ Msg("saved") \notin printed

C20_Witness ==
    /\ Msg("save_error") \in printed /\ pc = "exited"
    /\ dirExists
    /\ Len(returned.value) = 3
    /\ \E k, l \in 1..3 : returned.value[k].success /\ ~returned.value[l].success

====
